---------------------------- MODULE Spec2Model ----------------------------
(***************************************************************************)
(* A model of thefernbot/jwt-decoder, src/src/app/page.tsx: the token     *)
(* decoder (base64UrlDecode, decodeJWT), the claim row (KNOWN_CLAIMS,     *)
(* ClaimRow) and the JWTDecoder component's state (token, decoded, error) *)
(* with its effect and its handlers.                                       *)
(*                                                                         *)
(* A JavaScript string is a sequence of code points (naturals).  A JSON   *)
(* value is a tagged record: [t |-> "null"], [t |-> "bool", b |-> ..],    *)
(* [t |-> "num", n |-> ..], [t |-> "str", s |-> ..], [t |-> "arr",        *)
(* a |-> <<values>>], [t |-> "obj", o |-> << <<key, value>>, .. >>] (own  *)
(* properties in insertion order); [t |-> "undefined"] is JavaScript's    *)
(* undefined.                                                              *)
(***************************************************************************)
EXTENDS Integers, Sequences, FiniteSets, TLC

VARIABLES token, decoded, error, now, view

vars == <<token, decoded, error, now, view>>

---------------------------------------------------------------------------
(* Characters and strings                                                  *)

\* The printable ASCII characters, code points 32..126, in order (the grave
\* accent, 96, is spelled out).
Ascii ==
  <<" ", "!", "\"", "#", "$", "%", "&", "'", "(", ")", "*", "+", ",", "-", ".", "/",
    "0", "1", "2", "3", "4", "5", "6", "7", "8", "9", ":", ";", "<", "=", ">", "?",
    "@", "A", "B", "C", "D", "E", "F", "G", "H", "I", "J", "K", "L", "M", "N", "O",
    "P", "Q", "R", "S", "T", "U", "V", "W", "X", "Y", "Z", "[", "\\", "]", "^", "_",
    "(grave)", "a", "b", "c", "d", "e", "f", "g", "h", "i", "j", "k", "l", "m", "n", "o",
    "p", "q", "r", "s", "t", "u", "v", "w", "x", "y", "z", "{", "|", "}", "~">>

\* The code point of a printable ASCII character.
Ord(c) == 31 + (CHOOSE i \in 1..Len(Ascii) : Ascii[i] = c)

\* The sequence a function on 1..n is, held as a sequence.
AsSeq(f) == SubSeq(f, 1, Len(f))

\* The string whose characters are given one by one.
Str(cs) == AsSeq([i \in 1..Len(cs) |-> Ord(cs[i])])

RECURSIVE Concat(_)
\* The concatenation of a sequence of strings.
Concat(ss) == IF ss = <<>> THEN <<>> ELSE Head(ss) \o Concat(Tail(ss))

RECURSIVE Join(_, _)
\* Array.prototype.join / the inverse of split: the strings with sep between.
Join(ss, sep) ==
  IF ss = <<>> THEN <<>>
  ELSE IF Len(ss) = 1 THEN ss[1]
  ELSE ss[1] \o sep \o Join(Tail(ss), sep)

chDot == Ord(".")
chMinus == Ord("-")
chPlus == Ord("+")
chUnderscore == Ord("_")
chSlash == Ord("/")
chEquals == Ord("=")
chQuote == Ord("\"")
chBackslash == Ord("\\")
chComma == Ord(",")
chColon == Ord(":")
chLBracket == Ord("[")
chRBracket == Ord("]")
chLBrace == Ord("{")
chRBrace == Ord("}")
chZero == Ord("0")
chSpace == Ord(" ")
chUpperA == Ord("A")
chUpperZ == Ord("Z")
chLowerA == Ord("a")
chLowerZ == Ord("z")
chNine == Ord("9")
chLowerF == Ord("f")
chUpperF == Ord("F")
chLowerE == Ord("e")
chUpperE == Ord("E")
chLowerU == Ord("u")
chLowerB == Ord("b")
chLowerN == Ord("n")
chLowerR == Ord("r")
chLowerT == Ord("t")

\* The white space String.prototype.trim removes (the ASCII part of it and
\* U+00A0): TAB, LF, VT, FF, CR, SPACE, NBSP.
TrimSpace == {9, 10, 11, 12, 13, chSpace, 160}

RECURSIVE TrimLeft(_)
TrimLeft(s) ==
  IF s # <<>> /\ Head(s) \in TrimSpace THEN TrimLeft(Tail(s)) ELSE s

RECURSIVE TrimRight(_)
TrimRight(s) ==
  IF s # <<>> /\ s[Len(s)] \in TrimSpace
  THEN TrimRight(SubSeq(s, 1, Len(s) - 1)) ELSE s

\* String.prototype.trim
Trim(s) == TrimRight(TrimLeft(s))

\* String.prototype.split on a one-character separator: the texts between
\* the separators, so always at least one segment (the empty string splits
\* into one empty segment).
Split(s, sep) ==
  LET seps == {i \in 1..Len(s) : s[i] = sep}
      n == Cardinality(seps)
      pos(k) == IF k = 0 THEN 0
                ELSE IF k = n + 1 THEN Len(s) + 1
                ELSE CHOOSE i \in seps : Cardinality({j \in seps : j < i}) = k - 1
  IN  AsSeq([k \in 1..(n + 1) |-> SubSeq(s, pos(k - 1) + 1, pos(k) - 1)])

---------------------------------------------------------------------------
(* base64                                                                  *)

\* The value 0..63 of a character of the standard base64 alphabet, else -1.
B64Value(c) ==
  IF c >= chUpperA /\ c <= chUpperZ THEN c - chUpperA
  ELSE IF c >= chLowerA /\ c <= chLowerZ THEN c - chLowerA + 26
  ELSE IF c >= chZero /\ c <= chNine THEN c - chZero + 52
  ELSE IF c = chPlus THEN 62
  ELSE IF c = chSlash THEN 63
  ELSE -1

\* The white space atob strips before decoding: TAB, LF, FF, CR, SPACE.
AtobSpace == {9, 10, 12, 13, chSpace}

\* The string without the characters of a set.
Without(s, drop) == SelectSeq(s, LAMBDA c : c \notin drop)

\* The removal by atob of one or two trailing = when the length is a multiple of 4.
StripPadding(s) ==
  IF Len(s) % 4 # 0 \/ s = <<>> THEN s
  ELSE IF s[Len(s)] # chEquals THEN s
  ELSE IF s[Len(s) - 1] = chEquals THEN SubSeq(s, 1, Len(s) - 2)
  ELSE SubSeq(s, 1, Len(s) - 1)

\* The bytes that base64 characters d (no padding, valid) stand for: six bits
\* a character, whole bytes only, the left-over bits dropped.
B64Bytes(d) ==
  AsSeq([k \in 1..((Len(d) * 6) \div 8) |->
    LET g == (k - 1) \div 3
        r == (k - 1) % 3
        v(j) == B64Value(d[4 * g + j])
    IN  IF r = 0 THEN v(1) * 4 + (v(2) \div 16)
        ELSE IF r = 1 THEN (v(2) % 16) * 16 + (v(3) \div 4)
        ELSE (v(3) % 4) * 64 + v(4)])

\* window.atob (forgiving-base64 decode): [ok |-> FALSE] is the
\* InvalidCharacterError it throws, else the binary string, one character
\* 0..255 for each byte.
atob(data) ==
  LET d == StripPadding(Without(data, AtobSpace))
  IN  IF Len(d) % 4 = 1 THEN [ok |-> FALSE, s |-> <<>>]
      ELSE IF \E i \in 1..Len(d) : B64Value(d[i]) < 0 THEN [ok |-> FALSE, s |-> <<>>]
      ELSE [ok |-> TRUE, s |-> B64Bytes(d)]

RECURSIVE PadTo4(_)
\* while (base64.length % 4) base64 += "="
PadTo4(s) == IF Len(s) % 4 # 0 THEN PadTo4(Append(s, chEquals)) ELSE s

\* str.replace(/-/g, "+").replace(/_/g, "/")
UrlToStd(str) ==
  AsSeq([i \in 1..Len(str) |->
    IF str[i] = chMinus THEN chPlus
    ELSE IF str[i] = chUnderscore THEN chSlash
    ELSE str[i]])

\* base64UrlDecode: [ok |-> FALSE] when it throws Error("Invalid base64 encoding").
base64UrlDecode(str) == atob(PadTo4(UrlToStd(str)))

---------------------------------------------------------------------------
(* JSON values                                                             *)

JNull == [t |-> "null"]
JUndefined == [t |-> "undefined"]
JBool(b) == [t |-> "bool", b |-> b]
JNum(n) == [t |-> "num", n |-> n]
JStr(s) == [t |-> "str", s |-> s]
JArr(a) == [t |-> "arr", a |-> a]
JObj(o) == [t |-> "obj", o |-> o]

\* obj[key] = value on a plain object: an own property keeps its place when
\* it is assigned again, a new one goes last.
SetProp(o, key, value) ==
  IF \E i \in 1..Len(o) : o[i][1] = key
  THEN AsSeq([i \in 1..Len(o) |-> IF o[i][1] = key THEN <<key, value>> ELSE o[i]])
  ELSE Append(o, <<key, value>>)

---------------------------------------------------------------------------
(* JSON.parse, on the JSON grammar without fractions and exponents: a      *)
(* number is an integer literal (a text with a fraction or an exponent is  *)
(* outside the model and no input of the model holds one).                 *)

JsonSpace == {9, 10, 13, chSpace}

strNull == Str(<<"n", "u", "l", "l">>)
strTrue == Str(<<"t", "r", "u", "e">>)
strFalse == Str(<<"f", "a", "l", "s", "e">>)
strUndefined == Str(<<"u", "n", "d", "e", "f", "i", "n", "e", "d">>)
strObjectObject ==
  Str(<<"[", "o", "b", "j", "e", "c", "t", " ", "O", "b", "j", "e", "c", "t", "]">>)

\* A parse result: the SyntaxError JSON.parse throws, or a value and the
\* position after it.
ParseFail == [ok |-> FALSE, v |-> JNull, next |-> 0]
ParseOk(v, next) == [ok |-> TRUE, v |-> v, next |-> next]

RECURSIVE SkipWs(_, _)
SkipWs(s, i) ==
  IF i <= Len(s) /\ s[i] \in JsonSpace THEN SkipWs(s, i + 1) ELSE i

StartsWith(s, i, lit) ==
  /\ i + Len(lit) - 1 <= Len(s)
  /\ SubSeq(s, i, i + Len(lit) - 1) = lit

IsDigit(c) == c >= chZero /\ c <= chNine

\* The value of a hexadecimal digit, else -1.
HexValue(c) ==
  IF IsDigit(c) THEN c - chZero
  ELSE IF c >= chLowerA /\ c <= chLowerF THEN c - chLowerA + 10
  ELSE IF c >= chUpperA /\ c <= chUpperF THEN c - chUpperA + 10
  ELSE -1

RECURSIVE ParseDigits(_, _, _)
\* The digits from position i on, after the value acc.
ParseDigits(s, i, acc) ==
  IF i <= Len(s) /\ IsDigit(s[i])
  THEN ParseDigits(s, i + 1, acc * 10 + (s[i] - chZero))
  ELSE [n |-> acc, next |-> i]

\* -? (0 | [1-9][0-9]*), s[i] being the minus sign or the first digit.
ParseNumber(s, i) ==
  LET neg == s[i] = chMinus
      j == IF neg THEN i + 1 ELSE i
  IN  IF j > Len(s) \/ ~IsDigit(s[j]) THEN ParseFail
      ELSE LET d == IF s[j] = chZero THEN [n |-> 0, next |-> j + 1]
                    ELSE ParseDigits(s, j, 0)
           IN  IF d.next <= Len(s) /\ s[d.next] \in {chDot, chLowerE, chUpperE}
               THEN ParseFail
               ELSE ParseOk(JNum(IF neg THEN 0 - d.n ELSE d.n), d.next)

\* The character a one-letter escape stands for, else -1.
EscapeValue(c) ==
  IF c \in {chQuote, chBackslash, chSlash} THEN c
  ELSE IF c = chLowerB THEN 8
  ELSE IF c = chLowerF THEN 12
  ELSE IF c = chLowerN THEN 10
  ELSE IF c = chLowerR THEN 13
  ELSE IF c = chLowerT THEN 9
  ELSE -1

RECURSIVE ParseStringChars(_, _, _)
\* The characters of a string literal from position i on (after the opening
\* quote), acc being the characters read so far.
ParseStringChars(s, i, acc) ==
  IF i > Len(s) THEN ParseFail
  ELSE IF s[i] = chQuote THEN ParseOk(JStr(acc), i + 1)
  ELSE IF s[i] < 32 THEN ParseFail
  ELSE IF s[i] # chBackslash THEN ParseStringChars(s, i + 1, Append(acc, s[i]))
  ELSE IF i + 1 > Len(s) THEN ParseFail
  ELSE IF s[i + 1] = chLowerU
    THEN IF i + 5 > Len(s) \/ \E k \in 2..5 : HexValue(s[i + k]) < 0 THEN ParseFail
         ELSE ParseStringChars(s, i + 6,
                Append(acc, HexValue(s[i + 2]) * 4096 + HexValue(s[i + 3]) * 256
                            + HexValue(s[i + 4]) * 16 + HexValue(s[i + 5])))
  ELSE IF EscapeValue(s[i + 1]) < 0 THEN ParseFail
  ELSE ParseStringChars(s, i + 2, Append(acc, EscapeValue(s[i + 1])))

RECURSIVE ParseValue(_, _)
RECURSIVE ParseElements(_, _, _)
RECURSIVE ParseMembers(_, _, _)

\* The elements of an array from position i on (an element is due), acc being
\* the elements read so far.
ParseElements(s, i, acc) ==
  LET e == ParseValue(s, i)
      j == SkipWs(s, e.next)
  IN  IF ~e.ok \/ j > Len(s) THEN ParseFail
      ELSE IF s[j] = chComma THEN ParseElements(s, j + 1, Append(acc, e.v))
      ELSE IF s[j] = chRBracket THEN ParseOk(JArr(Append(acc, e.v)), j + 1)
      ELSE ParseFail

\* The members of an object from position i on (a member is due), acc being
\* the properties read so far.
ParseMembers(s, i, acc) ==
  LET k == SkipWs(s, i)
      key == IF k <= Len(s) /\ s[k] = chQuote
             THEN ParseStringChars(s, k + 1, <<>>) ELSE ParseFail
      c == SkipWs(s, key.next)
      val == IF key.ok /\ c <= Len(s) /\ s[c] = chColon
             THEN ParseValue(s, c + 1) ELSE ParseFail
      j == SkipWs(s, val.next)
  IN  IF ~val.ok \/ j > Len(s) THEN ParseFail
      ELSE IF s[j] = chComma THEN ParseMembers(s, j + 1, SetProp(acc, key.v.s, val.v))
      ELSE IF s[j] = chRBrace THEN ParseOk(JObj(SetProp(acc, key.v.s, val.v)), j + 1)
      ELSE ParseFail

\* The JSON value that starts at or after position i.
ParseValue(s, i) ==
  LET j == SkipWs(s, i)
  IN  IF j > Len(s) THEN ParseFail
      ELSE IF StartsWith(s, j, strNull) THEN ParseOk(JNull, j + 4)
      ELSE IF StartsWith(s, j, strTrue) THEN ParseOk(JBool(TRUE), j + 4)
      ELSE IF StartsWith(s, j, strFalse) THEN ParseOk(JBool(FALSE), j + 5)
      ELSE IF s[j] = chQuote THEN ParseStringChars(s, j + 1, <<>>)
      ELSE IF s[j] = chMinus \/ IsDigit(s[j]) THEN ParseNumber(s, j)
      ELSE IF s[j] = chLBracket
        THEN LET k == SkipWs(s, j + 1)
             IN  IF k <= Len(s) /\ s[k] = chRBracket THEN ParseOk(JArr(<<>>), k + 1)
                 ELSE ParseElements(s, j + 1, <<>>)
      ELSE IF s[j] = chLBrace
        THEN LET k == SkipWs(s, j + 1)
             IN  IF k <= Len(s) /\ s[k] = chRBrace THEN ParseOk(JObj(<<>>), k + 1)
                 ELSE ParseMembers(s, j + 1, <<>>)
      ELSE ParseFail

\* JSON.parse: [ok |-> FALSE] when it throws SyntaxError, else the value.
JSONparse(text) ==
  LET r == ParseValue(text, 1)
  IN  IF r.ok /\ SkipWs(text, r.next) = Len(text) + 1
      THEN [ok |-> TRUE, v |-> r.v]
      ELSE [ok |-> FALSE, v |-> JNull]

---------------------------------------------------------------------------
(* JSON.stringify(value), without indentation                              *)

RECURSIVE NatToStr(_)
NatToStr(n) ==
  IF n < 10 THEN <<chZero + n>>
  ELSE Append(NatToStr(n \div 10), chZero + (n % 10))

\* Number.prototype.toString of an integer.
NumToStr(n) == IF n < 0 THEN <<chMinus>> \o NatToStr(0 - n) ELSE NatToStr(n)

HexDigits == Str(<<"0", "1", "2", "3", "4", "5", "6", "7", "8", "9",
                   "a", "b", "c", "d", "e", "f">>)

\* The text of one character inside a JSON string literal.
QuoteChar(c) ==
  IF c = chQuote THEN <<chBackslash, chQuote>>
  ELSE IF c = chBackslash THEN <<chBackslash, chBackslash>>
  ELSE IF c = 8 THEN <<chBackslash, chLowerB>>
  ELSE IF c = 12 THEN <<chBackslash, chLowerF>>
  ELSE IF c = 10 THEN <<chBackslash, chLowerN>>
  ELSE IF c = 13 THEN <<chBackslash, chLowerR>>
  ELSE IF c = 9 THEN <<chBackslash, chLowerT>>
  ELSE IF c < 32
    THEN <<chBackslash, chLowerU, chZero, chZero,
           HexDigits[(c \div 16) + 1], HexDigits[(c % 16) + 1]>>
  ELSE <<c>>

\* The JSON string literal of a string.
QuoteStr(s) ==
  <<chQuote>> \o Concat([i \in 1..Len(s) |-> QuoteChar(s[i])]) \o <<chQuote>>

RECURSIVE JSONstringify(_)
JSONstringify(v) ==
  IF v.t = "null" THEN strNull
  ELSE IF v.t = "bool"
    THEN IF v.b THEN strTrue ELSE strFalse
  ELSE IF v.t = "num" THEN NumToStr(v.n)
  ELSE IF v.t = "str" THEN QuoteStr(v.s)
  ELSE IF v.t = "arr"
    THEN <<chLBracket>>
         \o Join([i \in 1..Len(v.a) |-> JSONstringify(v.a[i])], <<chComma>>)
         \o <<chRBracket>>
  ELSE <<chLBrace>>
       \o Join([i \in 1..Len(v.o) |->
                  QuoteStr(v.o[i][1]) \o <<chColon>> \o JSONstringify(v.o[i][2])],
               <<chComma>>)
       \o <<chRBrace>>

---------------------------------------------------------------------------
(* The JavaScript operations decodeJWT and the render apply to JSON values *)

\* value.key for a key no prototype defines (exp, iat, alg, typ): reading a
\* property of null or undefined throws TypeError; an object gives its own
\* property; a string, a number, a boolean or an array gives undefined.
GetProp(value, key) ==
  IF value.t \in {"null", "undefined"} THEN [threw |-> TRUE, v |-> JUndefined]
  ELSE IF value.t = "obj" /\ \E i \in 1..Len(value.o) : value.o[i][1] = key
    THEN [threw |-> FALSE,
          v |-> value.o[CHOOSE i \in 1..Len(value.o) : value.o[i][1] = key][2]]
  ELSE [threw |-> FALSE, v |-> JUndefined]

\* ToBoolean
Truthy(value) ==
  IF value.t \in {"null", "undefined"} THEN FALSE
  ELSE IF value.t = "bool" THEN value.b
  ELSE IF value.t = "num" THEN value.n # 0
  ELSE IF value.t = "str" THEN value.s # <<>>
  ELSE TRUE

RECURSIVE ToStr(_)
\* ToString of a JSON value (String(value), and the element texts of
\* Array.prototype.join).
ToStr(value) ==
  IF value.t = "null" THEN strNull
  ELSE IF value.t = "undefined" THEN strUndefined
  ELSE IF value.t = "bool"
    THEN IF value.b THEN strTrue ELSE strFalse
  ELSE IF value.t = "num" THEN NumToStr(value.n)
  ELSE IF value.t = "str" THEN value.s
  ELSE IF value.t = "arr"
    THEN Join([i \in 1..Len(value.a) |->
                 IF value.a[i].t \in {"null", "undefined"} THEN <<>>
                 ELSE ToStr(value.a[i])],
              <<chComma>>)
  ELSE strObjectObject

NaN == [nan |-> TRUE, n |-> 0]
Number(n) == [nan |-> FALSE, n |-> n]

\* StringToNumber on decimal integer texts: white space is trimmed, the empty
\* text is 0, an optional sign and digits are that integer, anything else is
\* NaN (a text with a fraction, an exponent, a radix prefix or Infinity is
\* outside the model and no input of the model holds one).
StringToNumber(str) ==
  LET s == Trim(str)
      signed == s # <<>> /\ s[1] \in {chMinus, chPlus}
      digits == IF signed THEN Tail(s) ELSE s
  IN  IF s = <<>> THEN Number(0)
      ELSE IF digits = <<>> \/ \E i \in 1..Len(digits) : ~IsDigit(digits[i]) THEN NaN
      ELSE IF s[1] = chMinus THEN Number(0 - ParseDigits(digits, 1, 0).n)
      ELSE Number(ParseDigits(digits, 1, 0).n)

\* ToNumber, as the operator * applies it to its operands.
ToNumber(value) ==
  IF value.t = "num" THEN Number(value.n)
  ELSE IF value.t = "bool" THEN Number(IF value.b THEN 1 ELSE 0)
  ELSE IF value.t = "null" THEN Number(0)
  ELSE IF value.t \in {"str", "arr"} THEN StringToNumber(ToStr(value))
  ELSE NaN

\* A Date: its time value is s * 1000 + ms milliseconds (0 <= ms < 1000), or
\* NaN when the date is invalid.  The seconds and the milliseconds are kept
\* apart so that present-day time values stay within the 32-bit integers
\* of TLC; every time value the model forms is within the range of Date.
DateOf(s, ms) == [t |-> "date", valid |-> TRUE, s |-> s, ms |-> ms]
InvalidDate == [t |-> "date", valid |-> FALSE, s |-> 0, ms |-> 0]

\* new Date(value * 1000)
DateOfSeconds(value) ==
  LET x == ToNumber(value)
  IN  IF x.nan THEN InvalidDate ELSE DateOf(x.n, 0)

\* a < b on two Dates: the comparison of their time values, false when either
\* is NaN.
DateLess(a, b) ==
  /\ a.valid /\ b.valid
  /\ \/ a.s < b.s
     \/ a.s = b.s /\ a.ms < b.ms

---------------------------------------------------------------------------
(* decodeJWT                                                               *)

strExp == Str(<<"e", "x", "p">>)
strIat == Str(<<"i", "a", "t">>)
strNbf == Str(<<"n", "b", "f">>)
strAlg == Str(<<"a", "l", "g">>)
strTyp == Str(<<"t", "y", "p">>)

\* SegmentCountOk with the check parts.length < 3 in place of !== 3.
SegmentCountOk_AtLeast(parts) == Len(parts) >= 3

\* parts.length !== 3 is the early return of null.
SegmentCountOk(parts) == Len(parts) = 3

\* SignatureOf with the third segment decoded like the other two.
SignatureOf_Decoded(parts) == base64UrlDecode(parts[3]).s

\* const signature = parts[2]
SignatureOf(parts) == parts[3]

\* JSON.parse(base64UrlDecode(part)): [ok |-> FALSE] when either throws.
DecodePart(part) ==
  LET text == base64UrlDecode(part)
  IN  IF text.ok THEN JSONparse(text.s) ELSE [ok |-> FALSE, v |-> JNull]

\* if (payload.exp) { expiresAt = new Date(payload.exp * 1000);
\*                    isExpired = expiresAt < new Date(); }
\* threw: payload.exp throws TypeError.
Expiry(payload, clock) ==
  LET exp == GetProp(payload, strExp)
  IN  IF exp.threw THEN [threw |-> TRUE, isExpired |-> FALSE, expiresAt |-> JNull]
      ELSE IF Truthy(exp.v)
        THEN LET expiresAt == DateOfSeconds(exp.v)
             IN  [threw |-> FALSE,
                  isExpired |-> DateLess(expiresAt, clock),
                  expiresAt |-> expiresAt]
      ELSE [threw |-> FALSE, isExpired |-> FALSE, expiresAt |-> JNull]

\* if (payload.iat) { issuedAt = new Date(payload.iat * 1000); }
Issued(payload) ==
  LET iat == GetProp(payload, strIat)
  IN  IF iat.threw THEN [threw |-> TRUE, issuedAt |-> JNull]
      ELSE IF Truthy(iat.v) THEN [threw |-> FALSE, issuedAt |-> DateOfSeconds(iat.v)]
      ELSE [threw |-> FALSE, issuedAt |-> JNull]

\* return { header, payload, signature, isExpired, expiresAt, issuedAt }, or
\* the null of the catch when reading payload.exp or payload.iat threw.
DecodedJWT(header, payload, signature, expiry, issued) ==
  IF expiry.threw \/ issued.threw THEN JNull
  ELSE [t |-> "jwt",
        header |-> header,
        payload |-> payload,
        signature |-> signature,
        isExpired |-> expiry.isExpired,
        expiresAt |-> expiry.expiresAt,
        issuedAt |-> issued.issuedAt]

\* The try block on the two decoded parts: the null of the catch when
\* base64UrlDecode or JSON.parse threw on either.
TryDecode(header, payload, signature, clock) ==
  IF ~header.ok \/ ~payload.ok THEN JNull
  ELSE DecodedJWT(header.v, payload.v, signature,
                  Expiry(payload.v, clock), Issued(payload.v))

\* decodeJWT on the parts of the token.
DecodeParts(parts, clock) ==
  IF ~SegmentCountOk(parts) THEN JNull
  ELSE TryDecode(DecodePart(parts[1]), DecodePart(parts[2]), SignatureOf(parts), clock)

\* decodeJWT(token) at the time clock: JNull, or the DecodedJWT.
decodeJWT(tok, clock) == DecodeParts(Split(Trim(tok), chDot), clock)

---------------------------------------------------------------------------
(* The encoder a token is made with: the UTF-8 bytes of a text, and their  *)
(* base64url text without padding.                                         *)

\* The UTF-8 bytes of one code point below 65536.
Utf8Char(c) ==
  IF c < 128 THEN <<c>>
  ELSE IF c < 2048 THEN <<192 + (c \div 64), 128 + (c % 64)>>
  ELSE <<224 + (c \div 4096), 128 + ((c \div 64) % 64), 128 + (c % 64)>>

Utf8Encode(s) == Concat([i \in 1..Len(s) |-> Utf8Char(s[i])])

\* The character of the URL-safe base64 alphabet with value v.
B64UrlChar(v) ==
  IF v < 26 THEN chUpperA + v
  ELSE IF v < 52 THEN chLowerA + (v - 26)
  ELSE IF v < 62 THEN chZero + (v - 52)
  ELSE IF v = 62 THEN chMinus
  ELSE chUnderscore

Base64UrlEncode(bytes) ==
  AsSeq([j \in 1..((Len(bytes) * 8 + 5) \div 6) |->
    LET g == (j - 1) \div 4
        r == (j - 1) % 4
        b(k) == IF 3 * g + k <= Len(bytes) THEN bytes[3 * g + k] ELSE 0
    IN  B64UrlChar(IF r = 0 THEN b(1) \div 4
                   ELSE IF r = 1 THEN (b(1) % 4) * 16 + (b(2) \div 16)
                   ELSE IF r = 2 THEN (b(2) % 16) * 4 + (b(3) \div 64)
                   ELSE b(3) % 64)])

\* The segment that carries a text, and the segment that carries a JSON value.
EncodeText(text) == Base64UrlEncode(Utf8Encode(text))
EncodeValue(value) == EncodeText(JSONstringify(value))

---------------------------------------------------------------------------
(* KNOWN_CLAIMS and ClaimRow                                               *)

\* The own properties of KNOWN_CLAIMS.
KNOWN_CLAIMS ==
  << <<Str(<<"i", "s", "s">>),
       [label |-> "Issuer", description |-> "Principal that issued the JWT"]>>,
     <<Str(<<"s", "u", "b">>),
       [label |-> "Subject", description |-> "Principal that is the subject of the JWT"]>>,
     <<Str(<<"a", "u", "d">>),
       [label |-> "Audience", description |-> "Recipients that the JWT is intended for"]>>,
     <<strExp,
       [label |-> "Expiration Time", description |-> "Time after which the JWT expires"]>>,
     <<strNbf,
       [label |-> "Not Before",
        description |-> "Time before which the JWT must not be accepted"]>>,
     <<strIat,
       [label |-> "Issued At", description |-> "Time at which the JWT was issued"]>>,
     <<Str(<<"j", "t", "i">>),
       [label |-> "JWT ID", description |-> "Unique identifier for the JWT"]>>,
     <<Str(<<"n", "a", "m", "e">>),
       [label |-> "Name", description |-> "Full name of the subject"]>>,
     <<Str(<<"e", "m", "a", "i", "l">>),
       [label |-> "Email", description |-> "Email address of the subject"]>>,
     <<Str(<<"r", "o", "l", "e">>),
       [label |-> "Role", description |-> "Role or permission level"]>>,
     <<Str(<<"s", "c", "o", "p", "e">>),
       [label |-> "Scope", description |-> "Scopes or permissions granted"]>>,
     <<Str(<<"a", "d", "m", "i", "n">>),
       [label |-> "Admin", description |-> "Administrative privilege flag"]>> >>

\* The keys of the annotation table.
KnownClaimNames == {KNOWN_CLAIMS[i][1] : i \in 1..Len(KNOWN_CLAIMS)}

\* The properties KNOWN_CLAIMS, an object literal, inherits from
\* Object.prototype: functions, and for __proto__ the prototype itself.
ObjectPrototypeNames ==
  { Str(<<"c", "o", "n", "s", "t", "r", "u", "c", "t", "o", "r">>),
    Str(<<"t", "o", "S", "t", "r", "i", "n", "g">>),
    Str(<<"t", "o", "L", "o", "c", "a", "l", "e", "S", "t", "r", "i", "n", "g">>),
    Str(<<"v", "a", "l", "u", "e", "O", "f">>),
    Str(<<"h", "a", "s", "O", "w", "n", "P", "r", "o", "p", "e", "r", "t", "y">>),
    Str(<<"i", "s", "P", "r", "o", "t", "o", "t", "y", "p", "e", "O", "f">>),
    Str(<<"p", "r", "o", "p", "e", "r", "t", "y", "I", "s",
          "E", "n", "u", "m", "e", "r", "a", "b", "l", "e">>),
    Str(<<"_", "_", "p", "r", "o", "t", "o", "_", "_">>),
    Str(<<"_", "_", "d", "e", "f", "i", "n", "e", "G", "e", "t", "t", "e", "r", "_", "_">>),
    Str(<<"_", "_", "d", "e", "f", "i", "n", "e", "S", "e", "t", "t", "e", "r", "_", "_">>),
    Str(<<"_", "_", "l", "o", "o", "k", "u", "p", "G", "e", "t", "t", "e", "r", "_", "_">>),
    Str(<<"_", "_", "l", "o", "o", "k", "u", "p", "S", "e", "t", "t", "e", "r", "_", "_">>) }

\* const known = KNOWN_CLAIMS[name]: the annotation of an own key, the
\* inherited function or object of a name of Object.prototype (truthy, with
\* no label and no description of its own), else undefined.
LookupClaim(name) ==
  IF name \in KnownClaimNames
  THEN [t |-> "annotation",
        label |-> KNOWN_CLAIMS[CHOOSE i \in 1..Len(KNOWN_CLAIMS) :
                                 KNOWN_CLAIMS[i][1] = name][2].label,
        description |-> KNOWN_CLAIMS[CHOOSE i \in 1..Len(KNOWN_CLAIMS) :
                                       KNOWN_CLAIMS[i][1] = name][2].description]
  ELSE IF name \in ObjectPrototypeNames THEN [t |-> "inherited"]
  ELSE JUndefined

\* isTimestamp without the typeof check.
isTimestamp_AnyType(name, value) == name = strExp \/ name = strIat \/ name = strNbf

\* typeof value === "number" && (name === "exp" || name === "iat" || name === "nbf")
isTimestamp(name, value) ==
  value.t = "num" /\ (name = strExp \/ name = strIat \/ name = strNbf)

\* new Date(value * 1000).toLocaleString(): the date and time of the instant in
\* the locale of the browser, kept as the instant it renders.
LocaleDateString(value) == [kind |-> "localeDate", date |-> DateOfSeconds(value)]

\* The element ClaimRow returns: the name, whether the label span and the
\* description paragraph are there (known && ...) and their texts (an
\* undefined label or description renders as no text), and the value shown.
Row(name, value, known) ==
  [name |-> name,
   annotated |-> known.t # "undefined",
   label |-> IF known.t = "annotation" THEN known.label ELSE "",
   description |-> IF known.t = "annotation" THEN known.description ELSE "",
   displayValue |-> IF isTimestamp(name, value) THEN LocaleDateString(value)
                    ELSE [kind |-> "json", text |-> JSONstringify(value)]]

ClaimRow(name, value) == Row(name, value, LookupClaim(name))

---------------------------------------------------------------------------
(* The render of the decoded output                                        *)

\* Object.entries of a non-null value: the own properties of an object (no
\* input of the model has an integer-like key, which would come first), the
\* indexed elements of an array, the indexed characters of a string, nothing
\* for a number or a boolean.
ObjectEntries(value) ==
  IF value.t = "obj" THEN value.o
  ELSE IF value.t = "arr"
    THEN AsSeq([i \in 1..Len(value.a) |-> <<NatToStr(i - 1), value.a[i]>>])
  ELSE IF value.t = "str"
    THEN AsSeq([i \in 1..Len(value.s) |-> <<NatToStr(i - 1), JStr(<<value.s[i]>>)>>])
  ELSE <<>>

RECURSIVE ValidChild(_)
\* Whether React renders the value as a child: a plain object as a child
\* throws ("Objects are not valid as a React child"), an array renders its
\* elements, anything else renders as text or as nothing.
ValidChild(value) ==
  IF value.t = "obj" THEN FALSE
  ELSE IF value.t = "arr" THEN \A i \in 1..Len(value.a) : ValidChild(value.a[i])
  ELSE TRUE

NoView == [crashed |-> FALSE, status |-> "", headerRows |-> <<>>, payloadRows |-> <<>>]
CrashedView == [crashed |-> TRUE, status |-> "", headerRows |-> <<>>, payloadRows |-> <<>>]

\* The rows of the entries of a value.
RowsOf(entries) ==
  AsSeq([i \in 1..Len(entries) |-> ClaimRow(entries[i][1], entries[i][2])])

Rows(value) == RowsOf(ObjectEntries(value))

\* The decoded output with the algorithm badge alg, decoded.header.alg:
\* the render throws, and the view is lost, when decoded.header is null or
\* (decoded.header.alg as string) || "Unknown" is no valid child.
Output(d, alg) ==
  IF alg.threw THEN CrashedView
  ELSE IF Truthy(alg.v) /\ ~ValidChild(alg.v) THEN CrashedView
  ELSE [crashed |-> FALSE,
        status |-> IF d.isExpired THEN "Expired"
                   ELSE IF d.expiresAt.t = "date" THEN "Valid"
                   ELSE "No Expiration",
        headerRows |-> Rows(d.header),
        payloadRows |-> Rows(d.payload)]

\* {decoded && (...)}: the status badge, the algorithm badge, and a ClaimRow
\* for each entry of the header and of the payload.
Render(d) ==
  IF d.t = "null" THEN NoView ELSE Output(d, GetProp(d.header, strAlg))

---------------------------------------------------------------------------
(* EXAMPLE_TOKENS                                                          *)

\* EXAMPLE_TOKENS[0].token
ExampleToken1 ==
  Str(<<
      "e", "y", "J", "h", "b", "G", "c", "i", "O", "i", "J", "I", "U", "z", "I", "1",
      "N", "i", "I", "s", "I", "n", "R", "5", "c", "C", "I", "6", "I", "k", "p", "X",
      "V", "C", "J", "9", ".", "e", "y", "J", "z", "d", "W", "I", "i", "O", "i", "I",
      "x", "M", "j", "M", "0", "N", "T", "Y", "3", "O", "D", "k", "w", "I", "i", "w",
      "i", "b", "m", "F", "t", "Z", "S", "I", "6", "I", "k", "p", "v", "a", "G", "4",
      "g", "R", "G", "9", "l", "I", "i", "w", "i", "Y", "W", "R", "t", "a", "W", "4",
      "i", "O", "n", "R", "y", "d", "W", "U", "s", "I", "m", "l", "h", "d", "C", "I",
      "6", "M", "T", "U", "x", "N", "j", "I", "z", "O", "T", "A", "y", "M", "n", "0",
      ".", "P", "O", "s", "t", "G", "e", "t", "f", "A", "y", "t", "a", "Z", "S", "8",
      "2", "w", "H", "c", "j", "o", "T", "y", "o", "q", "h", "M", "y", "x", "X", "i",
      "W", "d", "R", "7", "N", "n", "7", "A", "2", "9", "D", "N", "S", "l", "0", "E",
      "i", "X", "L", "d", "w", "J", "6", "x", "C", "6", "A", "f", "g", "Z", "W", "F",
      "1", "b", "O", "s", "S", "_", "T", "u", "Y", "I", "3", "O", "G", "8", "5", "A",
      "m", "i", "E", "x", "R", "E", "k", "r", "S", "6", "t", "D", "f", "T", "Q", "2",
      "B", "3", "W", "X", "l", "r", "r", "-", "w", "p", "5", "A", "o", "k", "i", "R",
      "b", "z", "3", "_", "o", "B", "4", "O", "x", "G", "-", "W", "9", "K", "c", "E",
      "E", "b", "D", "R", "c", "Z", "c", "0", "n", "H", "3", "L", "7", "L", "z", "Y",
      "p", "t", "i", "y", "1", "P", "t", "A", "y", "l", "Q", "G", "x", "H", "T", "W",
      "Z", "X", "t", "G", "z", "4", "h", "t", "0", "b", "A", "e", "c", "B", "g", "m",
      "p", "d", "g", "X", "M", "g", "u", "E", "I", "c", "o", "q", "P", "J", "1", "n",
      "3", "p", "I", "W", "k", "_", "d", "U", "Z", "e", "g", "p", "q", "x", "0", "L",
      "k", "a", "2", "1", "H", "6", "X", "x", "U", "T", "x", "i", "y", "8", "O", "c",
      "a", "a", "r", "A", "8", "z", "d", "n", "P", "U", "n", "V", "6", "A", "m", "N",
      "P", "3", "e", "c", "F", "a", "w", "I", "F", "Y", "d", "v", "J", "B", "_", "c",
      "m", "-", "G", "v", "p", "C", "S", "b", "r", "8", "G", "8", "y", "_", "M", "l",
      "l", "j", "8", "f", "4", "x", "9", "n", "B", "H", "8", "p", "Q", "u", "x", "8",
      "9", "_", "6", "g", "U", "Y", "6", "1", "8", "i", "Y", "v", "7", "t", "u", "P",
      "W", "B", "F", "f", "E", "b", "L", "x", "t", "F", "2", "p", "Z", "S", "6", "Y",
      "C", "1", "a", "S", "f", "L", "Q", "x", "e", "N", "e", "8", "d", "j", "T", "9",
      "Y", "j", "p", "v", "R", "Z", "A">>)

\* EXAMPLE_TOKENS[1].token
ExampleToken2 ==
  Str(<<
      "e", "y", "J", "h", "b", "G", "c", "i", "O", "i", "J", "I", "U", "z", "I", "1",
      "N", "i", "I", "s", "I", "n", "R", "5", "c", "C", "I", "6", "I", "k", "p", "X",
      "V", "C", "J", "9", ".", "e", "y", "J", "z", "d", "W", "I", "i", "O", "i", "J",
      "1", "c", "2", "V", "y", "X", "z", "E", "y", "M", "y", "I", "s", "I", "m", "V",
      "t", "Y", "W", "l", "s", "I", "j", "o", "i", "a", "m", "9", "o", "b", "k", "B",
      "l", "e", "G", "F", "t", "c", "G", "x", "l", "L", "m", "N", "v", "b", "S", "I",
      "s", "I", "n", "J", "v", "b", "G", "U", "i", "O", "i", "J", "1", "c", "2", "V",
      "y", "I", "i", "w", "i", "a", "W", "F", "0", "I", "j", "o", "x", "N", "z", "A",
      "w", "M", "D", "A", "w", "M", "D", "A", "w", "L", "C", "J", "l", "e", "H", "A",
      "i", "O", "j", "E", "3", "M", "D", "A", "w", "M", "D", "M", "2", "M", "D", "B",
      "9", ".", "X", "K", "9", "_", "8", "w", "8", "k", "7", "j", "7", "x", "Y", "7",
      "k", "5", "m", "N", "8", "F", "G", "v", "H", "3", "s", "J", "5", "k", "P", "3",
      "n", "T", "9", "p", "R", "7", "w", "L", "2", "q", "Z", "4", "M">>)

\* EXAMPLE_TOKENS[2].token
ExampleToken3 ==
  Str(<<
      "e", "y", "J", "h", "b", "G", "c", "i", "O", "i", "J", "S", "U", "z", "I", "1",
      "N", "i", "I", "s", "I", "n", "R", "5", "c", "C", "I", "6", "I", "k", "p", "X",
      "V", "C", "I", "s", "I", "m", "t", "p", "Z", "C", "I", "6", "I", "m", "1", "5",
      "L", "W", "t", "l", "e", "S", "1", "p", "Z", "C", "J", "9", ".", "e", "y", "J",
      "p", "c", "3", "M", "i", "O", "i", "J", "o", "d", "H", "R", "w", "c", "z", "o",
      "v", "L", "2", "F", "1", "d", "G", "g", "u", "Z", "X", "h", "h", "b", "X", "B",
      "s", "Z", "S", "5", "j", "b", "2", "0", "i", "L", "C", "J", "z", "d", "W", "I",
      "i", "O", "i", "J", "1", "c", "2", "V", "y", "X", "z", "Q", "1", "N", "i", "I",
      "s", "I", "m", "F", "1", "Z", "C", "I", "6", "I", "m", "F", "w", "a", "S", "5",
      "l", "e", "G", "F", "t", "c", "G", "x", "l", "L", "m", "N", "v", "b", "S", "I",
      "s", "I", "m", "l", "h", "d", "C", "I", "6", "M", "T", "c", "w", "M", "D", "A",
      "w", "M", "D", "A", "w", "M", "C", "w", "i", "Z", "X", "h", "w", "I", "j", "o",
      "x", "O", "D", "A", "w", "M", "D", "A", "w", "M", "D", "A", "w", "L", "C", "J",
      "z", "Y", "2", "9", "w", "Z", "S", "I", "6", "I", "n", "J", "l", "Y", "W", "Q",
      "g", "d", "3", "J", "p", "d", "G", "U", "i", "f", "Q", ".", "S", "I", "G", "N",
      "A", "T", "U", "R", "E", "_", "P", "L", "A", "C", "E", "H", "O", "L", "D", "E",
      "R">>)

EXAMPLE_TOKENS == <<ExampleToken1, ExampleToken2, ExampleToken3>>

---------------------------------------------------------------------------
(* The clock                                                               *)

\* The first instant of the model, in epoch seconds (a present-day time), and
\* how far the clock goes from it.
ClockStart == 1793000000
MaxSeconds == 2
MaxMs == 1

Clocks == {DateOf(ClockStart + k, ms) : k \in 0..MaxSeconds, ms \in 0..MaxMs}

---------------------------------------------------------------------------
(* What the user may enter: tokens made of encoded JSON values and of      *)
(* segments that are no encoding of one.                                   *)

Obj1(key, value) == JObj(<< <<key, value>> >>)

headerStd ==
  JObj(<< <<strAlg, JStr(Str(<<"H", "S", "2", "5", "6">>))>>, <<strTyp, JStr(Str(<<"J", "W", "T">>))>> >>)
payloadStd == Obj1(Str(<<"s", "u", "b">>), JStr(Str(<<"1", "2", "3", "4", "5", "6", "7", "8", "9", "0">>)))

\* A string with a character outside ASCII: U+00E9, and U+20AC.
strAccent == <<Ord("J"), 233, 2 * 4096 + 10 * 16 + 12>>

HeaderValues ==
  { headerStd,
    Obj1(Str(<<"k", "i", "d">>), JStr(strAccent)),
    Obj1(strAlg, JObj(<<>>)),
    Obj1(strAlg, JArr(<<JStr(Str(<<"H", "S", "2", "5", "6">>))>>)),
    JNull, JArr(<<JNum(1)>>), JStr(Str(<<"a", "b">>)), JNum(5), JBool(TRUE) }

PayloadValues ==
  { payloadStd,
    JObj(<<>>),
    Obj1(strExp, JNum(0)),
    Obj1(strExp, JNum(1)),
    Obj1(strExp, JNum(-1)),
    Obj1(strExp, JNum(ClockStart)),
    Obj1(strExp, JNum(ClockStart + 1)),
    Obj1(strExp, JStr(Str(<<"2">>))),
    Obj1(strExp, JStr(Str(<<"s", "o", "o", "n">>))),
    Obj1(strExp, JStr(<<>>)),
    Obj1(strExp, JBool(TRUE)),
    Obj1(strExp, JBool(FALSE)),
    Obj1(strExp, JNull),
    Obj1(strExp, JArr(<<>>)),
    Obj1(strExp, JObj(<<>>)),
    JObj(<< <<strIat, JNum(1)>>, <<strNbf, JStr(Str(<<"1">>))>>,
            <<strExp, JNum(ClockStart + 1)>> >>),
    Obj1(strNbf, JNum(2)),
    JObj(<< <<strIat, JBool(TRUE)>>, <<Str(<<"c", "o", "n", "s", "t", "r", "u", "c", "t", "o", "r">>), JNum(1)>>,
            <<Str(<<"t", "o", "S", "t", "r", "i", "n", "g">>), JNull>>, <<Str(<<"f", "o", "o">>), JNum(7)>>,
            <<Str(<<"r", "o", "l", "e">>), JArr(<<JStr(Str(<<"a">>)), JObj(<<>>)>>)>> >>),
    Obj1(Str(<<"n", "a", "m", "e">>), JStr(strAccent)),
    JNull, JArr(<<JNum(1)>>), JStr(Str(<<"a", "b">>)), JNum(5), JBool(FALSE) }

\* Segments that are not the encoding of a JSON text: a text that is no JSON,
\* the empty segment, characters outside the alphabet, a length that no
\* padding repairs, and white space inside an encoding.
OddSegments ==
  { EncodeText(<<chLBrace>>),
    <<>>,
    Str(<<"!", "!", "!", "i", "n", "v", "a", "l", "i", "d", "_", "b", "a", "s", "e", "6", "4", "!", "!", "!">>),
    Str(<<"e">>),
    Str(<<"e", "3", " ", "0">>) }

HeaderSegments == {EncodeValue(v) : v \in HeaderValues} \cup OddSegments
\* A JSON text no JSON.stringify writes: white space, and a key given twice.
textTwice == Str(<<"{", " ", "\"", "i", "a", "t", "\"", " ", ":", " ", "5", ",", " ", "\"", "i", "a", "t", "\"", " ", ":", " ", "0", " ", "}">>)

PayloadSegments ==
  {EncodeValue(v) : v \in PayloadValues} \cup OddSegments \cup {EncodeText(textTwice)}

\* Third segments: a word, nothing, and characters no base64 text has.
Signatures == { Str(<<"s", "i", "g">>), <<>>, Str(<<"!", "a", " ", "b", "=">>) }

Token(segments) == Join(segments, <<chDot>>)

ThreeSegmentTokens ==
  {Token(<<h, EncodeValue(payloadStd), Str(<<"s", "i", "g">>)>>) : h \in HeaderSegments}
  \cup {Token(<<EncodeValue(headerStd), p, sig>>) :
          p \in PayloadSegments, sig \in Signatures}
  \cup {Token(<<EncodeValue(JNull), EncodeValue(JNull), Str(<<"s", "i", "g">>)>>)}

tokenStd == Token(<<EncodeValue(headerStd), EncodeValue(payloadStd), Str(<<"s", "i", "g">>)>>)

OtherTokens ==
  { <<chSpace>>,
    <<10, 9, chSpace>>,
    <<chSpace, 10>> \o tokenStd \o <<chSpace, 10>>,
    Str(<<"a", "b", "c">>),
    EncodeValue(headerStd),
    Token(<<EncodeValue(headerStd), EncodeValue(payloadStd)>>),
    tokenStd \o Str(<<".", "e", "x", "t", "r", "a">>),
    tokenStd \o Str(<<".", "a", ".", "b">>),
    Str(<<"n", "o", "t", ".", "a", ".", "v", "a", "l", "i", "d", "t", "o", "k", "e", "n", ".", "e", "x", "t", "r", "a">>),
    Str(<<".", ".">>),
    Str(<<".", ".", ".">>) }

\* The texts the user may type or paste.
Typed == ThreeSegmentTokens \cup OtherTokens \cup {<<>>}

---------------------------------------------------------------------------
(* The JWTDecoder component                                                *)

InvalidFormat ==
  [t |-> "str",
   text |-> "Invalid JWT format. Tokens should have 3 parts separated by dots."]

\* IsBlank without the trim: !token.
IsBlank_NoTrim(tok) == tok = <<>>

\* !token.trim()
IsBlank(tok) == Trim(tok) = <<>>

\* The body of the effect of [token]: what decoded and error are set to.
\* if (result) { setDecoded(result); setError(null); }
\* else { setDecoded(null); setError("Invalid JWT format. ..."); }
OnResult(result) ==
  IF result.t # "null" THEN [decoded |-> result, error |-> JNull]
  ELSE [decoded |-> JNull, error |-> InvalidFormat]

Effect(tok, clock) ==
  IF IsBlank(tok) THEN [decoded |-> JNull, error |-> JNull]
  ELSE OnResult(decodeJWT(tok, clock))

\* setToken(tok) with a new text: the state is set, the effect runs on the
\* token it sees, and the view is rendered from what the effect has set.
Commit(tok, set) ==
  /\ token' = tok
  /\ decoded' = set.decoded
  /\ error' = set.error
  /\ view' = Render(set.decoded)
  /\ UNCHANGED now

SetToken(tok) == Commit(tok, Effect(tok, now))

\* useState(""), useState(null), useState(null), and the effect on mount.
Init ==
  /\ token = <<>>
  /\ decoded = Effect(<<>>, DateOf(ClockStart, 0)).decoded
  /\ error = Effect(<<>>, DateOf(ClockStart, 0)).error
  /\ now = DateOf(ClockStart, 0)
  /\ view = Render(JNull)

\* onChange of the textarea: setToken(e.target.value).  A render that threw
\* has taken the component away, and a text equal to the token is no change.
onChange(tok) ==
  /\ ~view.crashed
  /\ tok # token
  /\ SetToken(tok)

\* loadExample(example.token); the buttons are there while !token.
loadExample(i) ==
  /\ ~view.crashed
  /\ token = <<>>
  /\ SetToken(EXAMPLE_TOKENS[i])

\* clearToken; the button is there while token is not empty.
clearToken ==
  /\ ~view.crashed
  /\ token # <<>>
  /\ SetToken(<<>>)

\* Time passes: a millisecond within the second, or on to the next second.
TickMs ==
  /\ now.ms < MaxMs
  /\ now' = DateOf(now.s, now.ms + 1)
  /\ UNCHANGED <<token, decoded, error, view>>

TickSecond ==
  /\ now.s < ClockStart + MaxSeconds
  /\ now' = DateOf(now.s + 1, 0)
  /\ UNCHANGED <<token, decoded, error, view>>

Next ==
  \/ \E tok \in Typed : onChange(tok)
  \/ \E i \in 1..Len(EXAMPLE_TOKENS) : loadExample(i)
  \/ clearToken
  \/ TickMs
  \/ TickSecond

Spec == Init /\ [][Next]_vars

---------------------------------------------------------------------------
(* The claims                                                              *)

\* The segments of the current input.
Parts == Split(Trim(token), chDot)

\* Whether every character of a text is white space.
AllSpace(tok) == \A i \in 1..Len(tok) : tok[i] \in TrimSpace

\* The rows on display, of the header and of the payload.
RowsShown == view.headerRows \o view.payloadRows

\* The entries the rows on display are made from.
EntriesShown ==
  IF decoded.t = "jwt" /\ ~view.crashed
  THEN ObjectEntries(decoded.header) \o ObjectEntries(decoded.payload)
  ELSE <<>>

\* C1: whenever the trimmed input splits on "." into a number of segments
\* other than 3, decodeJWT returns null, no DecodedJWT is held, and (the input
\* not being blank) the error is the fixed message.
C1_SegmentCount ==
  Len(Parts) # 3 =>
    /\ decodeJWT(token, now) = JNull
    /\ decoded = JNull
    /\ ~AllSpace(token) => error = InvalidFormat

\* C1 witness: an input of more than 3 segments whose first two segments are
\* encoded JSON objects, refused.
C1_Witness ==
  /\ Len(Parts) > 3
  /\ DecodePart(Parts[1]).ok /\ DecodePart(Parts[1]).v.t = "obj"
  /\ DecodePart(Parts[2]).ok /\ DecodePart(Parts[2]).v.t = "obj"
  /\ decoded = JNull /\ error = InvalidFormat

\* Whether a segment decodes to the text of a JSON object.
IsObjectSegment(part) ==
  /\ base64UrlDecode(part).ok
  /\ JSONparse(base64UrlDecode(part).s).ok
  /\ JSONparse(base64UrlDecode(part).s).v.t = "obj"

\* An input that is malformed: a wrong segment count, or a segment 0 or 1
\* that is no base64url text or whose text is no JSON object.
Malformed(tok) ==
  \/ Len(Split(Trim(tok), chDot)) # 3
  \/ ~IsObjectSegment(Split(Trim(tok), chDot)[1])
  \/ ~IsObjectSegment(Split(Trim(tok), chDot)[2])

\* C2: whenever the current input is not blank and malformed, the view has not
\* crashed, decodeJWT returns null, the error is the fixed message and no
\* decoded result is held.
C2_MalformedDegrades ==
  (~AllSpace(token) /\ Malformed(token)) =>
    /\ ~view.crashed
    /\ decodeJWT(token, now) = JNull
    /\ error = InvalidFormat
    /\ decoded = JNull

\* C3: in every DecodedJWT held, header and payload are JSON objects.
C3_HeaderPayloadObjects ==
  decoded.t = "jwt" => decoded.header.t = "obj" /\ decoded.payload.t = "obj"

\* Whether a JSON value is numeric or numeric-coercible: a number, or a
\* string or boolean that ToNumber takes to a number.
Numeric(value) ==
  \/ value.t = "num"
  \/ value.t \in {"str", "bool"} /\ ~ToNumber(value).nan

\* C4: in every DecodedJWT held, expiresAt is there if and only if payload.exp
\* is present with a numeric or numeric-coercible value (0 included), and with
\* no exp in the payload expiresAt is null and isExpired is false.
C4_ExpiresAtIffNumericExp ==
  decoded.t = "jwt" =>
    LET exp == GetProp(decoded.payload, strExp).v
    IN  /\ decoded.expiresAt # JNull <=> (exp # JUndefined /\ Numeric(exp))
        /\ exp = JUndefined => decoded.expiresAt = JNull /\ ~decoded.isExpired

\* C5: for the current input and every clock value, a decoded token with a
\* numeric payload.exp is expired exactly when exp * 1000 is less than the
\* clock, in milliseconds.
C5_ExpiredIffPast ==
  \A clock \in Clocks :
    LET d == decodeJWT(token, clock)
        exp == GetProp(d.payload, strExp).v
    IN  (d.t = "jwt" /\ exp.t = "num") =>
          (d.isExpired <=> (exp.n < clock.s \/ (exp.n = clock.s /\ 0 < clock.ms)))

\* Whether a JSON value is an object (with objects and arrays of such values
\* in it) as a program holds it: the keys of an object are distinct.
RECURSIVE WellFormed(_)
WellFormed(value) ==
  IF value.t = "obj"
  THEN /\ \A i, j \in 1..Len(value.o) : value.o[i][1] = value.o[j][1] => i = j
       /\ \A i \in 1..Len(value.o) : WellFormed(value.o[i][2])
  ELSE IF value.t = "arr" THEN \A i \in 1..Len(value.a) : WellFormed(value.a[i])
  ELSE TRUE

\* The tokens made of a header object, a payload object and a placeholder
\* signature, each with the objects it is made of.
RoundTripCases ==
  { <<h, p, Token(<<EncodeValue(h), EncodeValue(p), sig>>)>> :
      h \in {v \in HeaderValues : v.t = "obj" /\ WellFormed(v)},
      p \in {v \in PayloadValues : v.t = "obj" /\ WellFormed(v)},
      sig \in Signatures }

\* C6: when the input is the token made of a header object and a payload
\* object, the decoded header and payload are those objects.
C6_RoundTrip ==
  \A c \in RoundTripCases :
    token = c[3] =>
      /\ decoded.t = "jwt"
      /\ decoded.header = c[1]
      /\ decoded.payload = c[2]

\* The input with its third segment replaced.
WithSignature(tok, sig) ==
  Token(<<Split(Trim(tok), chDot)[1], Split(Trim(tok), chDot)[2], sig>>)

\* C7: the signature of a DecodedJWT held is the third segment of the trimmed
\* input, character for character, and with any other third segment the input
\* decodes alike: to null both, or to the same header, payload, isExpired,
\* expiresAt and issuedAt.
C7_SignatureVerbatim ==
  /\ decoded.t = "jwt" => decoded.signature = Parts[3]
  /\ Len(Parts) = 3 =>
       \A sig \in Signatures :
         LET d == decodeJWT(token, now)
             other == decodeJWT(WithSignature(token, sig), now)
         IN  /\ other.t = d.t
             /\ d.t = "jwt" =>
                  /\ other.signature = sig
                  /\ other.header = d.header
                  /\ other.payload = d.payload
                  /\ other.isExpired = d.isExpired
                  /\ other.expiresAt = d.expiresAt
                  /\ other.issuedAt = d.issuedAt

\* C7 witness: a token decoded with a third segment that is no base64 text.
C7_Witness ==
  /\ decoded.t = "jwt"
  /\ \E i \in 1..Len(decoded.signature) : B64Value(decoded.signature[i]) < 0
  /\ decoded.signature = Parts[3]

\* C8: whenever the current input is empty or all white space, error and
\* decoded are null; and an error held is the fixed message, for an input that
\* is not blank and that decodeJWT refuses.
C8_NoTokenState ==
  /\ AllSpace(token) => error = JNull /\ decoded = JNull
  /\ error # JNull =>
       /\ error = InvalidFormat
       /\ ~AllSpace(token)
       /\ decoded = JNull

\* C8 witness: an input of white space only, with no error and no result.
C8_Witness ==
  /\ token # <<>> /\ AllSpace(token)
  /\ error = JNull /\ decoded = JNull

\* C9: every row on display whose name is not one of the 12 keys of the
\* annotation table has no label and no description.
C9_UnknownUnannotated ==
  \A i \in 1..Len(RowsShown) :
    RowsShown[i].name \notin KnownClaimNames =>
      /\ ~RowsShown[i].annotated
      /\ RowsShown[i].label = ""
      /\ RowsShown[i].description = ""

\* C10: the value a row displays is the date and time of the epoch seconds
\* exactly when the name is exp, iat or nbf and the value is a number, and the
\* JSON text of the value in every other case.
C10_DisplayValue ==
  \A i \in 1..Len(EntriesShown) :
    LET name == EntriesShown[i][1]
        value == EntriesShown[i][2]
    IN  IF name \in {strExp, strIat, strNbf} /\ value.t = "num"
        THEN RowsShown[i].displayValue =
               [kind |-> "localeDate", date |-> DateOf(value.n, 0)]
        ELSE RowsShown[i].displayValue =
               [kind |-> "json", text |-> JSONstringify(value)]

\* C10 witness: on display together, a number under iat shown as a date and a
\* string under nbf shown as its JSON text.
C10_Witness ==
  /\ \E i \in 1..Len(RowsShown) :
       /\ RowsShown[i].name = strIat
       /\ RowsShown[i].displayValue.kind = "localeDate"
  /\ \E i \in 1..Len(RowsShown) :
       /\ RowsShown[i].name = strNbf
       /\ RowsShown[i].displayValue.kind = "json"

\* The text atob is given for a segment: - and _ replaced, = appended up to a
\* multiple of 4 characters.
Padded(part) == PadTo4(UrlToStd(part))

\* A character outside the standard base64 alphabet (white space included);
\* the padding character = is judged by InvalidPadding.
OutsideAlphabet(b) ==
  \E i \in 1..Len(b) : b[i] # chEquals /\ B64Value(b[i]) < 0

\* Padding that is not one or two = at the very end of the text.
InvalidPadding(b) ==
  \E i \in 1..Len(b) :
    /\ b[i] = chEquals
    /\ \/ i < Len(b) - 1
       \/ \E j \in (i + 1)..Len(b) : b[j] # chEquals

\* C11: whenever the current input has 3 segments and segment 0 or segment 1,
\* once - and _ are replaced and = is appended up to a multiple of 4, holds a
\* character outside the standard base64 alphabet (white space inside the
\* segment included) or invalid padding, the decoding of that segment fails,
\* decodeJWT returns null and no decoded result is held.
C11_InvalidBase64Rejected ==
  \A i \in {1, 2} :
    (Len(Parts) = 3
     /\ (OutsideAlphabet(Padded(Parts[i])) \/ InvalidPadding(Padded(Parts[i])))) =>
      /\ ~base64UrlDecode(Parts[i]).ok
      /\ decodeJWT(token, now) = JNull
      /\ decoded = JNull

\* C11 witness: a header segment with white space inside it on which the
\* decoding has acted and which was accepted and parsed into a result.
C11_Witness ==
  /\ Len(Parts) = 3
  /\ \E k \in 1..Len(Parts[1]) : Parts[1][k] \in AtobSpace
  /\ base64UrlDecode(Parts[1]).ok
  /\ decoded.t = "jwt"

\* The part of C11 about characters other than white space and about padding:
\* such a segment 0 or 1 is refused.
C11_NonSpaceRejected ==
  \A i \in {1, 2} :
    (Len(Parts) = 3
     /\ (OutsideAlphabet(Without(Padded(Parts[i]), AtobSpace))
         \/ InvalidPadding(Padded(Parts[i])))) =>
      /\ ~base64UrlDecode(Parts[i]).ok
      /\ decoded = JNull

=============================================================================
